---- MODULE Spec2Model ----
(***************************************************************************)
(* zoom-lomax (src/main.rs): collect a user's Zoom cloud recordings, round *)
(* each meeting's local start time to the hour, derive date/time.ext file  *)
(* names, download what is not on disk yet and mail a summary.             *)
(*                                                                         *)
(* Three specifications share the module:                                  *)
(*   SpecRound   round_time_to_hour applied to one DateTime<Tz>            *)
(*   SpecConfig  read_config applied to one JSON document                  *)
(*   Spec        run(): get_meetings, the per-meeting loop, the download   *)
(*               loop and the notification, over successive runs that      *)
(*               share the output directory                                *)
(***************************************************************************)
EXTENDS Integers, Sequences, FiniteSets, TLC

VARIABLES
    \* ---- SpecRound
    rin,        \* the DateTime<Tz> handed to round_time_to_hour
    rout,       \* *mtime after the call
    rpc,        \* "start" | "done" | "panic"
    \* ---- SpecConfig
    cdoc,       \* the JSON document handed to read_config
    cres,       \* Result<Config, Error>
    cpc,        \* "start" | "done"
    \* ---- Spec
    config,     \* Config of the current run plus is_lambda
    now,        \* Utc::now() of the current run
    remote,     \* the meetings the Zoom account holds (ordered)
    query,      \* the from/to query of the last get_meetings
    meetings,   \* ZoomMeetings.meetings not yet iterated by run
    rlist,      \* Recordings.recordings
    di,         \* position of download_meetings in rlist (1-based, next to do)
    pc,         \* where run is
    result,     \* what the last finished run returned
    dirs,       \* directories on disk
    files,      \* files on disk: path -> contents
    runlog,     \* per-run history of filesystem and network effects
    sends,      \* notification sends attempted by the current run
    runs        \* runs started so far

roundVars == <<rin, rout, rpc>>
configVars == <<cdoc, cres, cpc>>
runVars == <<config, now, remote, query, meetings, rlist, di, pc, result,
             dirs, files, runlog, sends, runs>>
vars == <<rin, rout, rpc, cdoc, cres, cpc, config, now, remote, query,
          meetings, rlist, di, pc, result, dirs, files, runlog, sends, runs>>

(***************************************************************************)
(* Calendar arithmetic of chrono: a NaiveDateTime is a count of seconds    *)
(* since 1970-01-01T00:00:00 on the proleptic Gregorian calendar.          *)
(***************************************************************************)
DaysFromCivil(y, m, d) ==
    LET yy  == IF m <= 2 THEN y - 1 ELSE y
        era == yy \div 400
        yoe == yy - era * 400
        mp  == (m + 9) % 12
        doy == (153 * mp + 2) \div 5 + d - 1
        doe == yoe * 365 + yoe \div 4 - yoe \div 100 + doy
    IN  era * 146097 + doe - 719468

CivilFromDays(z) ==
    LET zz  == z + 719468
        era == zz \div 146097
        doe == zz - era * 146097
        yoe == (doe - doe \div 1460 + doe \div 36524 - doe \div 146096) \div 365
        doy == doe - (365 * yoe + yoe \div 4 - yoe \div 100)
        mp  == (5 * doy + 2) \div 153
        m   == IF mp < 10 THEN mp + 3 ELSE mp - 9
    IN  [year  |-> yoe + era * 400 + (IF m <= 2 THEN 1 ELSE 0),
         month |-> m,
         day   |-> doy - (153 * mp + 2) \div 5 + 1]

\* Seconds since the epoch of the wall-clock reading y-m-d h:mi:s.
Ymdhms(y, m, d, h, mi, s) ==
    DaysFromCivil(y, m, d) * 86400 + h * 3600 + mi * 60 + s

\* Timelike / Datelike accessors of a NaiveDateTime n.
DayOf(n) == n \div 86400
HourOf(n) == (n % 86400) \div 3600
MinuteOf(n) == (n % 3600) \div 60
SecondOf(n) == n % 60

(***************************************************************************)
(* chrono_tz::Tz.  Two zones of the IANA database are modelled over the    *)
(* year 2024: UTC (no transitions) and America/New_York (EST = UTC-5,      *)
(* EDT = UTC-4 between 2024-03-10T07:00Z and 2024-11-03T06:00Z).           *)
(***************************************************************************)
Zones == {"UTC", "America/New_York"}

SpringForward == Ymdhms(2024, 3, 10, 7, 0, 0)
FallBack == Ymdhms(2024, 11, 3, 6, 0, 0)

\* TimeZone::offset_from_utc_datetime: seconds east of UTC at instant utc.
Offset(tz, utc) ==
    IF tz = "UTC" THEN 0
    ELSE IF utc >= SpringForward /\ utc < FallBack THEN -4 * 3600
    ELSE -5 * 3600

ZoneOffsets(tz) == IF tz = "UTC" THEN {0} ELSE {-4 * 3600, -5 * 3600}

\* DateTime<Tz> is an instant plus its zone: [utc, tz].
naive_local(dt) == dt.utc + Offset(dt.tz, dt.utc)

\* TimeZone::from_local_datetime(..).single(): the instants of tz whose
\* wall-clock reading is n, as an Option: {} when there are none (a gap) or
\* two (an overlap), else the one.
from_local_single(tz, n) ==
    LET cands == {u \in {n - o : o \in ZoneOffsets(tz)} : u + Offset(tz, u) = n}
    IN  IF Cardinality(cands) = 1 THEN {[utc |-> u, tz |-> tz] : u \in cands}
        ELSE {}

\* DateTime::with_minute / with_second: change the field of the wall-clock
\* reading and map it back into the zone; None ({}) when that reading does
\* not exist or is ambiguous in the zone.
with_minute(dt, m) ==
    LET n == naive_local(dt)
    IN  from_local_single(dt.tz, n - MinuteOf(n) * 60 + m * 60)

with_second(dt, s) ==
    LET n == naive_local(dt)
    IN  from_local_single(dt.tz, n - SecondOf(n) + s)

\* DateTime + Duration: arithmetic on the instant.
plus_seconds(dt, secs) == [utc |-> dt.utc + secs, tz |-> dt.tz]

FUDGE == 5

\* mtime.with_minute(0).unwrap().with_second(0).unwrap(), as an Option:
\* {} when one of the two unwrap() calls panics.
TopOfHour(mtime) ==
    UNION {with_second(a, 0) : a \in with_minute(mtime, 0)}

\* round_time_to_hour(&mut mtime): [panicked, mtime], mtime being *mtime
\* when the function returns (untouched when it panicked).
round_time_to_hour(mtime) ==
    LET minute == MinuteOf(naive_local(mtime))
        top    == TopOfHour(mtime)
    IN  IF minute >= 60 - FUDGE
        THEN IF top = {} THEN [panicked |-> TRUE, mtime |-> mtime]
             ELSE [panicked |-> FALSE,
                   mtime |-> plus_seconds(CHOOSE t \in top : TRUE, 3600)]
        ELSE IF minute <= FUDGE
        THEN IF top = {} THEN [panicked |-> TRUE, mtime |-> mtime]
             ELSE [panicked |-> FALSE, mtime |-> CHOOSE t \in top : TRUE]
        ELSE [panicked |-> FALSE, mtime |-> mtime]

(***************************************************************************)
(* Formatting (chrono's format("%Y-%m-%d"), format("%H.%M")) and           *)
(* str::to_ascii_lowercase.                                                *)
(***************************************************************************)
Pad2(n) == IF n < 10 THEN "0" \o ToString(n) ELSE ToString(n)

\* mtime.format("%Y-%m-%d").to_string()
FormatDate(dt) ==
    LET c == CivilFromDays(DayOf(naive_local(dt)))
    IN  ToString(c.year) \o "-" \o Pad2(c.month) \o "-" \o Pad2(c.day)

\* mtime.format("%H.%M").to_string()
FormatTime(dt) ==
    LET n == naive_local(dt)
    IN  Pad2(HourOf(n)) \o "." \o Pad2(MinuteOf(n))

Upper == <<"A","B","C","D","E","F","G","H","I","J","K","L","M",
           "N","O","P","Q","R","S","T","U","V","W","X","Y","Z">>
Lower == <<"a","b","c","d","e","f","g","h","i","j","k","l","m",
           "n","o","p","q","r","s","t","u","v","w","x","y","z">>

\* Faulty variant of LowerChar: the case is not folded.
LowerChar_NoFold(c) == c

\* u8::to_ascii_lowercase on one character.
LowerChar(c) ==
    IF \E i \in 1..26 : Upper[i] = c
    THEN Lower[CHOOSE i \in 1..26 : Upper[i] = c]
    ELSE c

\* str::to_ascii_lowercase; a string is held as its sequence of characters.
to_ascii_lowercase(s) == [i \in 1..Len(s) |-> LowerChar(s[i])]

RECURSIVE Join(_)
Join(s) == IF s = <<>> THEN "" ELSE Head(s) \o Join(Tail(s))

(***************************************************************************)
(* process_meeting: one Recording per recording file, in order.            *)
(***************************************************************************)
MakeRecording(recording, mtime) ==
    LET time == FormatTime(mtime)
    IN  [time |-> time,
         date |-> FormatDate(mtime),
         file |-> [outfile |-> time \o "." \o
                               Join(to_ascii_lowercase(recording.file_type)),
                   url |-> recording.download_url]]

process_meeting(rl, meeting, mtime) ==
    rl \o [i \in 1..Len(meeting.recording_files) |->
              MakeRecording(meeting.recording_files[i], mtime)]

(***************************************************************************)
(* Paths: create_meeting_dir's output_dir/date and download_meetings'      *)
(* dir/outfile.                                                            *)
(***************************************************************************)
MeetingDir(cfg, date) == cfg.output_dir \o "/" \o date
OutFile(cfg, recording) ==
    MeetingDir(cfg, recording.date) \o "/" \o recording.file.outfile

(***************************************************************************)
(* read_config: serde_json::from_reader into Config.  A JSON document is   *)
(* held as: whether it is well-formed JSON holding an object, the required *)
(* keys it has (as strings), its "days" member and its "notify" member.    *)
(* An address is held as its sequence of lexical tokens.                   *)
(***************************************************************************)
RequiredKeys == {"api_key", "api_secret", "user", "output_dir"}

default_days == 1

\* The addresses of test_invalid_config / test_valid_config, and a bare one.
AddrUnclosed == <<"<", "user", "@", "foo.com">>
AddrNamed == <<"My name", " ", "<", "user", "@", "example.com", ">">>
AddrNoDomain == <<"user", "@">>
AddrBare == <<"user", "@", "example.com">>
Addresses == {AddrUnclosed, AddrNamed, AddrNoDomain, AddrBare}

\* Mailbox::from_str as the tests pin it down: an opening angle bracket
\* must be closed; what stands for the address is not checked for a domain
\* (the commented-out case of test_invalid_config: "user@" is accepted).
Mailbox_from_str(addr) ==
    LET opens  == {i \in 1..Len(addr) : addr[i] = "<"}
        closes == {i \in 1..Len(addr) : addr[i] = ">"}
    IN  /\ addr /= <<>>
        /\ \A i \in opens : \E j \in closes : j > i
        /\ \A j \in closes : \E i \in opens : i < j

\* EmailAddress::deserialize: Ok iff Mailbox::from_str is.
EmailAddress_deserialize(addr) == Mailbox_from_str(addr)

JsonDocs ==
    [wellformed : BOOLEAN,
     keys : SUBSET RequiredKeys,
     days : {[kind |-> "absent", int |-> 0], [kind |-> "int", int |-> 4],
             [kind |-> "string", int |-> 0]},
     notify : {<<>>} \cup {<<a>> : a \in Addresses}]

NoConfig ==
    [api_key |-> "", api_secret |-> "", user |-> "", output_dir |-> "",
     days |-> 0, notify |-> <<>>]

\* read_config(reader): [ok, config].  notify is an Option held as a
\* sequence of length 0 or 1.
read_config(doc) ==
    IF /\ doc.wellformed
       /\ RequiredKeys \subseteq doc.keys
       /\ doc.days.kind /= "string"
       /\ \A i \in 1..Len(doc.notify) : EmailAddress_deserialize(doc.notify[i])
    THEN [ok |-> TRUE,
          config |-> [api_key |-> "key", api_secret |-> "secret",
                      user |-> "user@example.com",
                      output_dir |-> "/home/me/dir",
                      days |-> IF doc.days.kind = "absent" THEN default_days
                               ELSE doc.days.int,
                      notify |-> doc.notify]]
    ELSE [ok |-> FALSE, config |-> NoConfig]

(***************************************************************************)
(* Inputs of round_time_to_hour: every minute of a few hours of 2024, in   *)
(* both zones: an ordinary hour, the last hour of a day, of February and   *)
(* of the year, and the hours on both sides of the two transitions of      *)
(* America/New_York.                                                       *)
(***************************************************************************)
RoundHours ==
    {Ymdhms(2024, 1, 9, 9, 0, 0), Ymdhms(2024, 1, 9, 23, 0, 0),
     Ymdhms(2024, 2, 29, 23, 0, 0), Ymdhms(2024, 12, 31, 23, 0, 0),
     Ymdhms(2024, 3, 10, 6, 0, 0), Ymdhms(2024, 3, 10, 7, 0, 0),
     Ymdhms(2024, 11, 3, 4, 0, 0), Ymdhms(2024, 11, 3, 5, 0, 0),
     Ymdhms(2024, 11, 3, 6, 0, 0)}
RoundSeconds == {0, 30, 59}
RoundInputs ==
    {[utc |-> h + 60 * m + s, tz |-> z] :
        h \in RoundHours, m \in 0..59, s \in RoundSeconds, z \in Zones}

(***************************************************************************)
(* run(): the state of the Zoom account, the configuration and the disk.   *)
(***************************************************************************)
MaxRuns == 2
MaxMeetings == 2
MaxDays == 2

\* ZoomRecordingFile values.
File1 == [file_type |-> <<"M", "P", "4">>, download_url |-> "https://zoom/u1"]
File2 == [file_type |-> <<"m", "p", "4">>, download_url |-> "https://zoom/u2"]
File3 == [file_type |-> <<"M", "4", "A">>, download_url |-> "https://zoom/u3"]
File4 == [file_type |-> <<"M", "P", "4">>, download_url |-> "https://zoom/u4"]
File5 == [file_type |-> <<"M", "P", "4">>, download_url |-> "https://zoom/u5"]

\* ZoomMeeting values; start_time is the RFC 3339 text held as its fields
\* (all with offset Z).
MeetingA ==
    [start_time |-> [year |-> 2024, month |-> 1, day |-> 9,
                     hour |-> 9, minute |-> 58, second |-> 30],
     timezone |-> "UTC", recording_files |-> <<File1, File2>>]
MeetingB ==
    [start_time |-> [year |-> 2024, month |-> 1, day |-> 9,
                     hour |-> 15, minute |-> 30, second |-> 45],
     timezone |-> "America/New_York", recording_files |-> <<File3>>]
MeetingC ==
    [start_time |-> [year |-> 2024, month |-> 1, day |-> 8,
                     hour |-> 23, minute |-> 59, second |-> 59],
     timezone |-> "UTC", recording_files |-> <<File4>>]
MeetingD ==
    [start_time |-> [year |-> 2024, month |-> 1, day |-> 9,
                     hour |-> 0, minute |-> 0, second |-> 1],
     timezone |-> "Mars/Olympus_Mons", recording_files |-> <<File5>>]
Meetings == {MeetingA, MeetingB, MeetingC, MeetingD}

\* The account's meeting list: up to MaxMeetings distinct meetings.
RemoteLists ==
    {l \in UNION {[1..n -> Meetings] : n \in 0..MaxMeetings} :
        \A i, j \in DOMAIN l : i /= j => l[i] /= l[j]}

Configs ==
    [output_dir : {"/out"}, days : 1..MaxDays,
     notify : {<<>>, <<AddrBare>>}, is_lambda : BOOLEAN]

\* Utc::now() at the start of a run.
Nows == {Ymdhms(2024, 1, 10, 0, 0, 0), Ymdhms(2024, 1, 10, 12, 0, 0)}

\* DateTime::parse_from_rfc3339(&meeting.start_time): an Option ({} = Err).
parse_from_rfc3339(t) ==
    IF /\ t.month \in 1..12 /\ t.day \in 1..31
       /\ t.hour \in 0..23 /\ t.minute \in 0..59 /\ t.second \in 0..59
       /\ CivilFromDays(DaysFromCivil(t.year, t.month, t.day)).day = t.day
    THEN {Ymdhms(t.year, t.month, t.day, t.hour, t.minute, t.second)}
    ELSE {}

\* meeting.timezone.parse::<Tz>(): Ok iff the name is a zone.
ParseTz(name) == IF name \in Zones THEN {name} ELSE {}

\* Faulty variant of GetMeetingsQuery: the lookback is not subtracted.
GetMeetingsQuery_NoLookback(cfg, utcnow) ==
    [from |-> FormatDate([utc |-> utcnow, tz |-> "UTC"]),
     to   |-> FormatDate([utc |-> utcnow, tz |-> "UTC"])]

\* get_meetings: the from/to query sent to the recordings endpoint.
GetMeetingsQuery(cfg, utcnow) ==
    [from |-> FormatDate([utc |-> utcnow - cfg.days * 86400, tz |-> "UTC"]),
     to   |-> FormatDate([utc |-> utcnow, tz |-> "UTC"])]

\* The recordings endpoint: the account's meetings whose UTC start date
\* lies in [from, to].
DayWindow ==
    LET ds == {DayOf(n) : n \in Nows}
    IN  {d - k : d \in ds, k \in 0..(MaxDays + 1)}
ParseDay(str) ==
    CHOOSE d \in DayWindow : FormatDate([utc |-> d * 86400, tz |-> "UTC"]) = str
StartOf(meeting) == CHOOSE u \in parse_from_rfc3339(meeting.start_time) : TRUE
RecordingsList(account, q) ==
    LET InQuery(m) == /\ ParseDay(q.from) <= DayOf(StartOf(m))
                      /\ DayOf(StartOf(m)) <= ParseDay(q.to)
    IN  SelectSeq(account, InQuery)

\* Faulty variant of exists: the existence check never finds the file.
exists_Never(fs, path) == FALSE

\* outfile.exists()
exists(fs, path) == path \in DOMAIN fs

\* File contents: the bytes of a URL, whole or cut short.
EmptyFile == [bytes |-> "", complete |-> FALSE]
PartialFile(url) == [bytes |-> url, complete |-> FALSE]
WholeFile(url) == [bytes |-> url, complete |-> TRUE]

\* Faulty variant of DownloadOutcomes: a file that is there is downloaded again.
DownloadOutcomes_NoSkip(ds, fs, dir, path) ==
    (IF dir \in ds THEN {} ELSE {"dir_fail"})
    \cup {"create_fail", "send_fail", "copy_fail", "ok"}

\* What one iteration of download_meetings can come to, for the recording
\* at path in directory dir: create_dir_all fails; the file is there; or
\* download's File::create, send or io::copy fails; or all succeed.
DownloadOutcomes(ds, fs, dir, path) ==
    (IF dir \in ds THEN {} ELSE {"dir_fail"})
    \cup (IF exists(fs, path) THEN {"skip"}
          ELSE {"create_fail", "send_fail", "copy_fail", "ok"})

\* Faulty variant of AbortsRun: a failed download is passed over.
AbortsRun_Never(outcome) == FALSE

\* The unwrap() calls of download_meetings: anything but a skip or a
\* completed download panics.
AbortsRun(outcome) == outcome \notin {"skip", "ok"}

\* The disk after download(client, url, outfile) came to outcome.
FilesAfter(fs, path, url, outcome) ==
    CASE outcome = "send_fail" -> (path :> EmptyFile) @@ fs
      [] outcome = "copy_fail" -> (path :> PartialFile(url)) @@ fs
      [] outcome = "ok"        -> (path :> WholeFile(url)) @@ fs
      [] OTHER                 -> fs

\* Faulty variant of ShouldNotify: an empty list is notified about too.
ShouldNotify_EvenEmpty(rl, cfg) == cfg.notify /= <<>>

\* run's test before send_notification.
ShouldNotify(rl, cfg) == rl /= <<>> /\ cfg.notify /= <<>>

\* send_notification's body lines.
NotificationBody(cfg, rl) ==
    [i \in 1..Len(rl) |->
        IF cfg.is_lambda
        THEN rl[i].date \o "/" \o rl[i].file.outfile \o ": " \o rl[i].file.url
        ELSE cfg.output_dir \o "/" \o rl[i].date \o "/" \o rl[i].file.outfile]

\* History records.
Ev(op, i, path, url) == [op |-> op, i |-> i, path |-> path, url |-> url]
NewRun(n, fetched, fs, outcome) ==
    [now |-> n, fetched |-> fetched, processed |-> <<>>, planned |-> <<>>,
     filesAtStart |-> fs, filesAtEnd |-> fs, events |-> <<>>,
     mail |-> <<>>, outcome |-> outcome]
DownloadEvents(outcome, i, path, url) ==
    CASE outcome = "skip"      -> <<Ev("skip", i, path, url)>>
      [] outcome = "send_fail" -> <<Ev("create", i, path, url),
                                    Ev("fail", i, path, url)>>
      [] outcome = "copy_fail" -> <<Ev("create", i, path, url),
                                    Ev("fetch", i, path, url),
                                    Ev("fail", i, path, url)>>
      [] outcome = "ok"        -> <<Ev("create", i, path, url),
                                    Ev("fetch", i, path, url),
                                    Ev("write", i, path, url)>>
      [] OTHER                 -> <<Ev("fail", i, path, url)>>
NoResult == [kind |-> "None", value |-> <<>>]

(***************************************************************************)
(* Initial states.                                                         *)
(***************************************************************************)
RoundIdle ==
    /\ rin = [utc |-> 0, tz |-> "UTC"] /\ rout = rin /\ rpc = "off"
ConfigIdle ==
    /\ cdoc = [wellformed |-> FALSE, keys |-> {},
               days |-> [kind |-> "absent", int |-> 0], notify |-> <<>>]
    /\ cres = [ok |-> FALSE, config |-> NoConfig]
    /\ cpc = "off"
RunStart ==
    /\ query = [from |-> "", to |-> ""]
    /\ meetings = <<>> /\ rlist = <<>> /\ di = 1
    /\ result = NoResult
    /\ dirs = {} /\ files = <<>>
    /\ runlog = <<>> /\ sends = 0 /\ runs = 0
RunIdle ==
    /\ config = [output_dir |-> "/out", days |-> default_days,
                 notify |-> <<>>, is_lambda |-> FALSE]
    /\ now = 0 /\ remote = <<>> /\ pc = "off"
    /\ RunStart

\* The state before the first run: an empty output directory, an account
\* and a configuration.
Init ==
    /\ config \in Configs /\ remote \in RemoteLists
    /\ now = 0 /\ pc = "idle"
    /\ RunStart
    /\ RoundIdle /\ ConfigIdle

InitRound ==
    /\ rin \in RoundInputs /\ rout = rin /\ rpc = "start"
    /\ RunIdle /\ ConfigIdle

InitConfig ==
    /\ cdoc \in JsonDocs /\ cres = [ok |-> FALSE, config |-> NoConfig]
    /\ cpc = "start"
    /\ RunIdle /\ RoundIdle

(***************************************************************************)
(* Actions.                                                                *)
(***************************************************************************)
\* round_time_to_hour(&mut mtime) on the input.
RoundTime ==
    /\ rpc = "start"
    /\ LET r == round_time_to_hour(rin)
       IN  /\ rout' = r.mtime
           /\ rpc' = IF r.panicked THEN "panic" ELSE "done"
    /\ UNCHANGED <<rin, configVars, runVars>>

\* read_config(reader) on the document.
ReadConfig ==
    /\ cpc = "start"
    /\ cres' = read_config(cdoc)
    /\ cpc' = "done"
    /\ UNCHANGED <<cdoc, roundVars, runVars>>

\* run, lines 336-371: a run starts and get_meetings returns Ok or Err.
Run_GetMeetings ==
    /\ pc = "idle"
    /\ runs < MaxRuns
    /\ \E n \in Nows, ok \in BOOLEAN :
        LET q    == GetMeetingsQuery(config, n)
            resp == RecordingsList(remote, q)
        IN  /\ n >= now
            /\ now' = n
            /\ query' = q
            /\ runs' = runs + 1
            /\ rlist' = <<>>
            /\ di' = 1
            /\ sends' = 0
            /\ IF ok
               THEN /\ meetings' = resp
                    /\ pc' = "meetings"
                    /\ result' = NoResult
                    /\ runlog' = Append(runlog, NewRun(n, resp, files, "running"))
               ELSE /\ meetings' = <<>>
                    /\ pc' = "idle"
                    /\ result' = [kind |-> "Err", value |-> <<>>]
                    /\ runlog' = Append(runlog, NewRun(n, <<>>, files, "Err"))
    /\ UNCHANGED <<config, remote, dirs, files, roundVars, configVars>>

\* run, lines 373-388: one iteration of the loop over the meetings.
Run_Meeting ==
    /\ pc = "meetings"
    /\ meetings /= <<>>
    /\ LET meeting == Head(meetings)
           tz == ParseTz(meeting.timezone)
           ts == parse_from_rfc3339(meeting.start_time)
       IN  IF tz = {} \/ ts = {}
           THEN /\ pc' = "idle"
                /\ result' = [kind |-> "Err", value |-> <<>>]
                /\ runlog' = [runlog EXCEPT ![runs].outcome = "Err"]
                /\ UNCHANGED <<meetings, rlist>>
           ELSE LET mtime == [utc |-> CHOOSE u \in ts : TRUE,
                              tz |-> CHOOSE z \in tz : TRUE]
                    r == round_time_to_hour(mtime)
                IN  IF r.panicked
                    THEN /\ pc' = "idle"
                         /\ result' = [kind |-> "Panic", value |-> <<>>]
                         /\ runlog' = [runlog EXCEPT ![runs].outcome = "Panic"]
                         /\ UNCHANGED <<meetings, rlist>>
                    ELSE /\ rlist' = process_meeting(rlist, meeting, r.mtime)
                         /\ meetings' = Tail(meetings)
                         /\ runlog' = [runlog EXCEPT
                                ![runs].processed = Append(@, meeting),
                                ![runs].planned = rlist']
                         /\ UNCHANGED <<pc, result>>
    /\ UNCHANGED <<config, now, remote, query, di, dirs, files, sends, runs,
                   roundVars, configVars>>

\* run, line 390: the loop over the meetings is over; download_meetings is
\* entered unless is_lambda (and left at once when rlist is empty).
Run_MeetingsDone ==
    /\ pc = "meetings"
    /\ meetings = <<>>
    /\ pc' = IF config.is_lambda \/ rlist = <<>> THEN "notify" ELSE "download"
    /\ UNCHANGED <<config, now, remote, query, meetings, rlist, di, result,
                   dirs, files, runlog, sends, runs, roundVars, configVars>>

\* download_meetings, lines 220-234: one iteration of the loop.
Run_Download ==
    /\ pc = "download"
    /\ di <= Len(rlist)
    /\ LET recording == rlist[di]
           dir  == MeetingDir(config, recording.date)
           path == OutFile(config, recording)
           url  == recording.file.url
       IN  \E o \in DownloadOutcomes(dirs, files, dir, path) :
            /\ dirs' = IF o = "dir_fail" THEN dirs
                       ELSE dirs \cup {config.output_dir, dir}
            /\ files' = FilesAfter(files, path, url, o)
            /\ IF AbortsRun(o)
               THEN /\ pc' = "idle"
                    /\ di' = di
                    /\ result' = [kind |-> "Panic", value |-> <<>>]
                    /\ runlog' = [runlog EXCEPT
                            ![runs].events = @ \o DownloadEvents(o, di, path, url),
                            ![runs].filesAtEnd = files',
                            ![runs].outcome = "Panic"]
               ELSE /\ pc' = IF di + 1 > Len(rlist) THEN "notify" ELSE "download"
                    /\ di' = di + 1
                    /\ result' = result
                    /\ runlog' = [runlog EXCEPT
                            ![runs].events = @ \o DownloadEvents(o, di, path, url),
                            ![runs].filesAtEnd = files']
    /\ UNCHANGED <<config, now, remote, query, meetings, rlist, sends, runs,
                   roundVars, configVars>>

\* run, lines 394-398: the notification, if any, and the return of rlist.
Run_Notify ==
    /\ pc = "notify"
    /\ \E sent \in BOOLEAN :
        IF ShouldNotify(rlist, config)
        THEN /\ sends' = sends + 1
             /\ runlog' = [runlog EXCEPT
                    ![runs].events = Append(@, Ev("send", 0, "", "")),
                    ![runs].mail = Append(@, [ok |-> sent,
                                     body |-> NotificationBody(config, rlist)]),
                    ![runs].outcome = "Ok"]
        ELSE /\ sent
             /\ sends' = sends
             /\ runlog' = [runlog EXCEPT ![runs].outcome = "Ok"]
    /\ pc' = "idle"
    /\ result' = [kind |-> "Ok", value |-> rlist]
    /\ UNCHANGED <<config, now, remote, query, meetings, rlist, di, dirs,
                   files, runs, roundVars, configVars>>

Next ==
    \/ Run_GetMeetings
    \/ Run_Meeting
    \/ Run_MeetingsDone
    \/ Run_Download
    \/ Run_Notify

NextRound == RoundTime

NextConfig == ReadConfig

Spec == Init /\ [][Next]_vars
SpecRound == InitRound /\ [][NextRound]_vars
SpecConfig == InitConfig /\ [][NextConfig]_vars

(***************************************************************************)
(* Claims.                                                                 *)
(***************************************************************************)

\* ---- C1 ----------------------------------------------------------------
\* Whether the zone ever shows the wall-clock reading n.
LocalExists(tz, n) == \E o \in ZoneOffsets(tz) : (n - o) + Offset(tz, n - o) = n

\* C1: round_time_to_hour, for every local time with minute m and any
\* second, returns: for m in 0..5 the same date and hour with minute 0 and
\* second 0; for m in 55..59 the start of the next hour (hour + 1, or 00:00
\* of the next day after hour 23); for m in 6..54 the time unchanged.
\* The start of the next hour is asked for only where the zone has that
\* reading (it has no 02:00 on the day the clocks go forward).
C1_RoundingAsClaimed ==
    rpc /= "start" =>
        LET n   == naive_local(rin)
            out == naive_local(rout)
            m   == MinuteOf(n)
        IN  /\ rpc = "done"
            /\ m <= 5 =>
                /\ DayOf(out) = DayOf(n) /\ HourOf(out) = HourOf(n)
                /\ MinuteOf(out) = 0 /\ SecondOf(out) = 0
            /\ (m >= 55 /\ LocalExists(rin.tz, n - m * 60 - SecondOf(n) + 3600)) =>
                /\ MinuteOf(out) = 0 /\ SecondOf(out) = 0
                /\ IF HourOf(n) = 23
                   THEN DayOf(out) = DayOf(n) + 1 /\ HourOf(out) = 0
                   ELSE DayOf(out) = DayOf(n) /\ HourOf(out) = HourOf(n) + 1
            /\ (m >= 6 /\ m <= 54) => rout = rin

\* C1, away from offset transitions: the same statement for the inputs
\* whose zone has no transition within an hour of them.  (Holds.)
C1_RoundingInFixedOffset ==
    (rpc /= "start" /\ \A d \in {-3600, 0, 3600} :
                          Offset(rin.tz, rin.utc + d) = Offset(rin.tz, rin.utc))
        => C1_RoundingAsClaimed

\* ---- C6 ----------------------------------------------------------------
\* A syntactically valid address: local@domain, bare or as "name <...>".
SyntacticallyValid(addr) ==
    LET IsWord(t) == t \notin {"<", ">", "@", " "}
        IsSpec(a) == Len(a) = 3 /\ IsWord(a[1]) /\ a[2] = "@" /\ IsWord(a[3])
    IN  \/ IsSpec(addr)
        \/ /\ Len(addr) >= 5
           /\ addr[Len(addr)] = ">"
           /\ addr[Len(addr) - 4] = "<"
           /\ IsSpec(SubSeq(addr, Len(addr) - 3, Len(addr) - 1))
           /\ \A i \in 1..(Len(addr) - 5) : addr[i] \notin {"<", ">", "@"}

\* C6: read_config fails when a required key is missing, fails when notify
\* is a syntactically invalid address, and otherwise (well-formed document,
\* well-typed days, notify absent or valid) succeeds, with days = 1 when
\* days is absent.
C6_ConfigValidation ==
    cpc = "done" =>
        /\ ~(RequiredKeys \subseteq cdoc.keys) => ~cres.ok
        /\ (cdoc.notify /= <<>> /\ ~SyntacticallyValid(cdoc.notify[1]))
              => ~cres.ok
        /\ ( /\ cdoc.wellformed
             /\ RequiredKeys \subseteq cdoc.keys
             /\ cdoc.days.kind /= "string"
             /\ cdoc.notify /= <<>> => SyntacticallyValid(cdoc.notify[1]) )
              => /\ cres.ok
                 /\ cdoc.days.kind = "absent" => cres.config.days = 1

\* ---- helpers over the history ------------------------------------------
\* The indices of run record r's plan that have an event of kind op.
IndicesWith(r, op) ==
    {i \in 1..Len(r.planned) :
        \E k \in 1..Len(r.events) : r.events[k].op = op /\ r.events[k].i = i}

\* The artifacts run r newly wrote, in plan order.
NewlyWritten(r) ==
    LET Written(i) == i \in IndicesWith(r, "write")
        idx == SelectSeq([i \in 1..Len(r.planned) |-> i], Written)
    IN  [k \in 1..Len(idx) |-> r.planned[idx[k]]]

\* ---- C3 ----------------------------------------------------------------
\* C3: the manifest run returns (and notifies about) holds exactly the
\* artifacts newly written in this run, so a run that writes nothing new
\* returns an empty manifest and sends nothing.  Stated for local-mode
\* runs, the ones that write artifacts.
C3_ManifestIsNewlyWritten ==
    (pc = "idle" /\ result.kind = "Ok" /\ ~config.is_lambda) =>
        /\ result.value = NewlyWritten(runlog[runs])
        /\ NewlyWritten(runlog[runs]) = <<>> => sends = 0

\* ---- C10 ---------------------------------------------------------------
\* C10: a file exists at a target path only if its remote bytes were
\* completely fetched and written.
C10_FilesAreComplete ==
    \A p \in DOMAIN files : files[p].complete

\* ---- C2 ----------------------------------------------------------------
\* Two successive local-mode runs that both returned Ok on the same
\* fetched list.
IdenticalRuns(k) ==
    /\ k \in 2..Len(runlog)
    /\ ~config.is_lambda
    /\ runlog[k - 1].outcome = "Ok" /\ runlog[k].outcome = "Ok"
    /\ runlog[k - 1].fetched = runlog[k].fetched

\* C2: when the pipeline runs twice in local mode on the same meeting list
\* and output directory without failure, the files after the second run
\* are those after the first, and the second run creates, fetches and
\* writes nothing: each planned artifact is skipped.
C2_SecondRunIdempotent ==
    \A k \in 1..Len(runlog) :
        IdenticalRuns(k) =>
            /\ runlog[k].filesAtEnd = runlog[k - 1].filesAtEnd
            /\ \A e \in 1..Len(runlog[k].events) :
                  runlog[k].events[e].op \notin {"create", "fetch", "write"}
            /\ IndicesWith(runlog[k], "skip") = 1..Len(runlog[k].planned)

C2_Witness ==
    \E k \in 1..Len(runlog) :
        /\ IdenticalRuns(k)
        /\ Len(runlog[k].planned) >= 2
        /\ DOMAIN runlog[k].filesAtEnd /= {}

\* ---- C4 ----------------------------------------------------------------
\* localTime strictly after referenceNow minus lookbackDays days.
InRange(meeting, days, reference) == StartOf(meeting) > reference - days * 86400

\* C4 as stated: a meeting's artifacts are planned only if its start is
\* strictly after now minus lookbackDays days.
C4_PlannedOnlyInRange ==
    \A k \in 1..Len(runlog) :
        \A i \in 1..Len(runlog[k].processed) :
            InRange(runlog[k].processed[i], config.days, runlog[k].now)

\* The dates of the query, written out: now is on 2024-01-10 in every run.
ExpectedQuery(days) ==
    [from |-> "2024-01-" \o Pad2(10 - days), to |-> "2024-01-10"]

RECURSIVE FileCount(_)
FileCount(ms) ==
    IF ms = <<>> THEN 0
    ELSE Len(Head(ms).recording_files) + FileCount(Tail(ms))

\* C4 amended: run filters nothing by time.  Once the loop over the
\* meetings is over, every meeting of the fetched list has been planned, in
\* order, in range or not; the only range selection is get_meetings' query,
\* from = the UTC date of now minus days days, to = the UTC date of now.
C4_AllFetchedPlanned ==
    /\ runs > 0 => query = ExpectedQuery(config.days)
    /\ \A k \in 1..Len(runlog) :
          (runlog[k].outcome = "Ok" \/ runlog[k].events /= <<>>
                \/ (k = runs /\ pc \in {"download", "notify"}))
            => /\ runlog[k].processed = runlog[k].fetched
               /\ Len(runlog[k].planned) = FileCount(runlog[k].fetched)

C4_Witness ==
    \E k \in 1..Len(runlog) :
        /\ runlog[k].outcome = "Ok"
        /\ \E i \in 1..Len(runlog[k].processed) :
              /\ ~InRange(runlog[k].processed[i], config.days, runlog[k].now)
              /\ \E j \in 1..Len(runlog[k].planned) :
                    runlog[k].planned[j].file.url =
                        runlog[k].processed[i].recording_files[1].download_url

\* ---- C5 ----------------------------------------------------------------
\* The plans of the four meetings, written out.
Planned(date, time, outfile, url) ==
    [time |-> time, date |-> date, file |-> [outfile |-> outfile, url |-> url]]
ExpectedPlan(meeting) ==
    CASE meeting = MeetingA ->
            <<Planned("2024-01-09", "10.00", "10.00.mp4", "https://zoom/u1"),
              Planned("2024-01-09", "10.00", "10.00.mp4", "https://zoom/u2")>>
      [] meeting = MeetingB ->
            <<Planned("2024-01-09", "10.30", "10.30.m4a", "https://zoom/u3")>>
      [] meeting = MeetingC ->
            <<Planned("2024-01-09", "00.00", "00.00.mp4", "https://zoom/u4")>>
      [] OTHER -> <<>>
ExpectedPath(recording) ==
    "/out/" \o recording.date \o "/" \o recording.time \o "." \o
        (IF recording.file.url = "https://zoom/u3" THEN "m4a" ELSE "mp4")

RECURSIVE ExpectedPlans(_)
ExpectedPlans(ms) ==
    IF ms = <<>> THEN <<>>
    ELSE ExpectedPlan(Head(ms)) \o ExpectedPlans(Tail(ms))

\* C5: process_meeting appends one artifact per recording file, in order,
\* with dateKey YYYY-MM-DD and timeKey HH.MM of the rounded local time
\* (seconds dropped) and filename timeKey.lower(fileType); the target path
\* is outputDir/dateKey/filename, so two plans of the same meetings yield
\* the same paths in the same order.
C5_PathDerivation ==
    \A k \in 1..Len(runlog) :
        /\ runlog[k].planned = ExpectedPlans(runlog[k].processed)
        /\ \A i \in 1..Len(runlog[k].planned) :
              OutFile(config, runlog[k].planned[i])
                  = ExpectedPath(runlog[k].planned[i])
        /\ \A j \in 1..Len(runlog) :
              runlog[j].processed = runlog[k].processed =>
                  [i \in 1..Len(runlog[j].planned) |->
                        OutFile(config, runlog[j].planned[i])]
                  = [i \in 1..Len(runlog[k].planned) |->
                        OutFile(config, runlog[k].planned[i])]

C5_Witness ==
    \E k \in 2..Len(runlog) :
        /\ runlog[k].processed = <<MeetingA, MeetingB>>
        /\ runlog[k - 1].processed = <<MeetingA, MeetingB>>
        /\ Len(runlog[k].planned) = 3
        /\ OutFile(config, runlog[k].planned[2]) = "/out/2024-01-09/10.00.mp4"

\* ---- C7 ----------------------------------------------------------------
\* C7: the first failure of a directory creation, fetch or write in the
\* download loop ends the run: nothing of the run follows it (no later
\* artifact is created, fetched, written or skipped, nothing is sent), and
\* the files the run wrote before it are on disk unchanged.
C7_FirstFailureAborts ==
    \A k \in 1..Len(runlog) :
        \A e \in 1..Len(runlog[k].events) :
            runlog[k].events[e].op = "fail" =>
                /\ e = Len(runlog[k].events)
                /\ runlog[k].outcome = "Panic"
                /\ k = runs => pc = "idle" /\ result.kind = "Panic"
                /\ \A w \in 1..(e - 1) :
                      runlog[k].events[w].op = "write" =>
                          /\ runlog[k].events[w].path \in DOMAIN runlog[k].filesAtEnd
                          /\ runlog[k].filesAtEnd[runlog[k].events[w].path]
                                = WholeFile(runlog[k].events[w].url)
                          /\ k = runs =>
                                files[runlog[k].events[w].path]
                                    = WholeFile(runlog[k].events[w].url)

C7_Witness ==
    \E k \in 1..Len(runlog) :
        \E w, e \in 1..Len(runlog[k].events) :
            /\ runlog[k].events[w].op = "write"
            /\ runlog[k].events[e].op = "fail"
            /\ runlog[k].events[w].i < runlog[k].events[e].i
            /\ runlog[k].events[e].i < Len(runlog[k].planned)

\* ---- C8 ----------------------------------------------------------------
\* Artifacts i < j of run record r share a target path that held no file
\* when the run began, i being the first of the plan with that path.
DuplicatePair(r, i, j) ==
    /\ i < j
    /\ OutFile(config, r.planned[i]) = OutFile(config, r.planned[j])
    /\ ~exists(r.filesAtStart, OutFile(config, r.planned[i]))
    /\ \A h \in 1..(i - 1) :
          OutFile(config, r.planned[h]) /= OutFile(config, r.planned[i])

\* C8: when two planned artifacts of a local run share a target path with
\* no file there at the start, then once the loop has dealt with the
\* second one, the first was created and written once, the second was
\* skipped (no failure, no second create), and the file holds the first's
\* bytes.
C8_DuplicateSkipped ==
    \A k \in 1..Len(runlog) :
        \A i, j \in 1..Len(runlog[k].planned) :
            LET r  == runlog[k]
                ej == {e \in 1..Len(r.events) : r.events[e].i = j}
            IN  (DuplicatePair(r, i, j) /\ ej /= {}) =>
                    /\ \A e \in ej : r.events[e].op = "skip"
                    /\ i \in IndicesWith(r, "write")
                    /\ Cardinality({e \in 1..Len(r.events) :
                            /\ r.events[e].op = "create"
                            /\ r.events[e].path = OutFile(config, r.planned[i])}) = 1
                    /\ r.filesAtEnd[OutFile(config, r.planned[i])]
                            = WholeFile(r.planned[i].file.url)

C8_Witness ==
    \E k \in 1..Len(runlog) :
        \E i, j \in 1..Len(runlog[k].planned) :
            /\ DuplicatePair(runlog[k], i, j)
            /\ j \in IndicesWith(runlog[k], "skip")
            /\ runlog[k].outcome = "Ok"

\* ---- C9 ----------------------------------------------------------------
\* C9: a run attempts at most one send, none without a recipient or with
\* an empty manifest, and in local mode only after every planned artifact
\* was skipped or written; a run ended by an error or a panic sends
\* nothing; and a send, failed or not, leaves the run's result Ok(rlist)
\* and the files as the download loop left them.
C9_NotificationOrdering ==
    \A k \in 1..Len(runlog) :
        LET r == runlog[k]
        IN  /\ Len(r.mail) <= 1
            /\ k = runs => sends = Len(r.mail)
            /\ r.outcome \in {"Err", "Panic"} => r.mail = <<>>
            /\ r.mail /= <<>> =>
                /\ config.notify /= <<>>
                /\ r.planned /= <<>>
                /\ r.outcome = "Ok"
                /\ r.events[Len(r.events)].op = "send"
                /\ ~config.is_lambda =>
                      IndicesWith(r, "skip") \cup IndicesWith(r, "write")
                          = 1..Len(r.planned)
                /\ (k = runs /\ pc = "idle") =>
                      /\ result = [kind |-> "Ok", value |-> r.planned]
                      /\ files = r.filesAtEnd

C9_Witness ==
    \E k \in 1..Len(runlog) :
        /\ runlog[k].mail /= <<>>
        /\ ~runlog[k].mail[1].ok
        /\ ~config.is_lambda
        /\ IndicesWith(runlog[k], "write") /= {}
        /\ pc = "idle" /\ k = runs

====
